---------------------------- MODULE Spec2Model ----------------------------
(***************************************************************************)
(* Model of src/strategies/my_strategy.py: MyStrategy (next, notify_order, *)
(* is_profitable_exit, calculate_position_size, place_bracket_order_       *)
(* openalgo) and FailoverStrategy (place_bracket_order_openalgo), run by   *)
(* the backtrader engine: per bar the broker executes pending orders and   *)
(* delivers their notifications to notify_order, then next() is called.    *)
(*                                                                         *)
(* Numbers.  Prices and cash are integers in 1/100 of a currency unit.     *)
(* Fractions of the source are rationals over a stated scale:              *)
(* takeprofit_pct = 0.10 = 100/PctScale, stoploss_pct = 0.005 = 5/PctScale,*)
(* commission_rate = 0.0001 = 1/RateScale.  None is the number 0, which no *)
(* price, order reference or order id takes.                               *)
(***************************************************************************)
EXTENDS Integers, Sequences, FiniteSets, TLC

VARIABLES
    mode,               \* self.p.mode
    strategy,           \* the class cerebro runs: MyStrategy or FailoverStrategy
    hasClient,          \* self.p.openalgo_client is not None
    max_retries,        \* self.p.max_retries
    commission_rate,    \* self.p.commission_rate, in 1/RateScale
    leverage,           \* self.p.leverage
    telegram_bot,       \* self.p.telegram_enabled and self.p.telegram_bot
    order,              \* self.order: None or the reference of an order
    openalgo_order_id,  \* self.openalgo_order_id
    entry_price,        \* self.entry_price
    tp_price,           \* self.tp_price
    sl_price,           \* self.sl_price
    position,           \* self.position.size (the broker's net position)
    orders,             \* the broker's pending orders
    nextRef,            \* the reference the broker gives its next order
    client_broker,      \* self.p.openalgo_client.broker
    calls,              \* adapter calls (placeorder) of the latest dispatch
    response,           \* what the latest place_bracket_order_openalgo returned
    crashed,            \* an exception left a handler: cerebro.run() is over
    last,               \* the latest handler call: its input and what it did
    auth                \* the UI's Auth object with users.json and
                        \* reset_tokens.json, and its latest call

\* The parameters: no handler assigns them.
params == <<mode, strategy, hasClient, max_retries, commission_rate, leverage,
            telegram_bot>>

vars == <<mode, strategy, hasClient, max_retries, commission_rate, leverage,
          telegram_bot, order, openalgo_order_id, entry_price, tp_price, sl_price, position,
          orders, nextRef, client_broker, calls, response, crashed, last,
          auth>>

\* ------------------------------------------------------------ constants

None == 0

PctScale == 1000
takeprofit_pct == 100
stoploss_pct == 5
RateScale == 10000
default_commission_rate == 1
default_leverage == 9
rsi_long == 60
rsi_short == 40
rsi_ema_slow == 100
crypto_rsi_long == 60
crypto_rsi_short == 40
SizerStake == 1

\* len(self) at the first next(): RSI(14) needs 15 bars, its EMA(100) 99 more.
MinPeriod == rsi_ema_slow + 14

\* Forbidden entry window, minutes after midnight: dtime(9, 15), dtime(10, 0).
ForbiddenFrom == 555
ForbiddenTo == 600

\* ---------------------------------------------------------------- bounds

MaxRetries == 2
MaxOrders == 4
MaxTokens == 2
MaxTime == 3

Modes == {"backtest", "paper", "live"}
Strategies == {"MyStrategy", "FailoverStrategy"}

\* Executed prices the broker may report for a market order.
FillPrices == {10000, 20000}
\* Closes, band values, bar times and cash readings of the bars fed to next().
Closes == {9990, 10001, 10005, 10020}
Bands == {9995, 10030}
Times == {554, 555, 600}
Cashes == {0, 1200, 2300}

\* ------------------------------------------------------------------ bars

\* An indicator snapshot with every long condition true at any close of Closes.
BullBar ==
    [ema05 |-> 3, ema5 |-> 2, ema20 |-> 1, rsi14 |-> 65,
     close |-> 10001, open |-> 9900, high1 |-> 9950, low1 |-> 9800,
     close1 |-> 9900, close2 |-> 9800,
     rsi_ema_veryfast |-> 58, rsi_ema_fast |-> 55, rsi_ema_slow |-> 52,
     supertrend |-> 9995, supertrend_direction |-> 1, volume |-> 100,
     time |-> 600, cash |-> 1200, len |-> MinPeriod]

\* The mirror image: every short condition true at any close of Closes.
BearBar ==
    [ema05 |-> 1, ema5 |-> 2, ema20 |-> 3, rsi14 |-> 35,
     close |-> 10001, open |-> 10100, high1 |-> 10200, low1 |-> 10050,
     close1 |-> 10100, close2 |-> 10200,
     rsi_ema_veryfast |-> 32, rsi_ema_fast |-> 35, rsi_ema_slow |-> 38,
     supertrend |-> 9995, supertrend_direction |-> 1, volume |-> 100,
     time |-> 600, cash |-> 1200, len |-> MinPeriod]

\* Neither: the averages are not aligned.
FlatBar ==
    [ema05 |-> 2, ema5 |-> 2, ema20 |-> 2, rsi14 |-> 50,
     close |-> 10001, open |-> 10001, high1 |-> 10050, low1 |-> 9950,
     close1 |-> 10000, close2 |-> 10000,
     rsi_ema_veryfast |-> 50, rsi_ema_fast |-> 50, rsi_ema_slow |-> 50,
     supertrend |-> 9995, supertrend_direction |-> 1, volume |-> 100,
     time |-> 600, cash |-> 1200, len |-> MinPeriod]

Templates == {BullBar, BearBar, FlatBar}

\* The bars fed to next(): each snapshot at every close and band value, at
\* every bar time, and under every cash reading.
PriceBars ==
    { [t EXCEPT !.close = c, !.supertrend = s] :
        t \in Templates, c \in Closes, s \in Bands }
TimeBars == { [t EXCEPT !.time = tm] : t \in Templates, tm \in Times }
CashBars == { [t EXCEPT !.cash = ca] : t \in Templates, ca \in Cashes }
Bars == PriceBars \cup TimeBars \cup CashBars

NoBar == [FlatBar EXCEPT !.close = 0, !.cash = 0]

\* ------------------------------------------------------------------ Auth

Users == {"admin", "trader"}
Passwords == {"admin123", "pw1", "pw2"}
UnknownEmail == "nobody@example.com"

EmailOf(u) == IF u = "admin" THEN "admin@example.com" ELSE "trader@example.com"

\* hashlib.sha256(password.encode()).hexdigest(): one digest per password.
hash_password(password) == <<"sha256", password>>

\* timedelta(hours=1), the clock counting hours.
TokenLifetime == 1

\* Auth.__init__ with a users.json of two users and no reset_tokens.json;
\* issued counts the tokens generated, resets the passwords each token has
\* changed, and op, token, ok and message describe the latest call.
NewAuth ==
    [users |-> [u \in Users |->
                  [password |-> hash_password("admin123"),
                   email |-> EmailOf(u)]],
     tokens |-> <<>>,
     issued |-> 0,
     now |-> 0,
     resets |-> [t \in 1..MaxTokens |-> 0],
     op |-> "init", token |-> 0, ok |-> TRUE, message |-> "none"]

\* Lines 75-79: the first user with that email, None when there is none.
UserByEmail(email) ==
    IF \E u \in Users : auth.users[u].email = email
    THEN CHOOSE u \in Users : auth.users[u].email = email
    ELSE "None"

\* Auth.send_reset_email; secrets.token_urlsafe gives a token never seen
\* before, and smtp_ok tells whether the mail could be sent.
SendResetEmail(email, smtp_ok) ==
    /\ auth.issued < MaxTokens
    /\ LET username == UserByEmail(email)
           token == auth.issued + 1
       IN  auth' =
             IF username = "None"
             THEN [auth EXCEPT !.op = "send_reset_email", !.token = 0,
                               !.ok = FALSE, !.message = "Email not found"]
             ELSE [auth EXCEPT
                     !.tokens = auth.tokens @@
                                  (token :> [username |-> username,
                                             expires |-> auth.now
                                                           + TokenLifetime]),
                     !.issued = token,
                     !.op = "send_reset_email", !.token = token,
                     !.ok = smtp_ok,
                     !.message = IF smtp_ok
                                 THEN "Reset email sent successfully"
                                 ELSE "Error sending email"]
    /\ UNCHANGED <<params, order, openalgo_order_id, entry_price, tp_price,
                   sl_price, position, orders, nextRef, client_broker, calls,
                   response, crashed, last>>

\* Mutant of reset_password: the token is not deleted after use.
reset_password_keeps_token(token, new_password) ==
    IF token \notin DOMAIN auth.tokens
    THEN [users |-> auth.users, tokens |-> auth.tokens, ok |-> FALSE,
          message |-> "Invalid token"]
    ELSE IF auth.tokens[token].expires < auth.now
    THEN [users |-> auth.users, tokens |-> auth.tokens, ok |-> FALSE,
          message |-> "Token expired"]
    ELSE [users |-> [auth.users EXCEPT
                       ![auth.tokens[token].username].password =
                           hash_password(new_password)],
          tokens |-> auth.tokens,
          ok |-> TRUE, message |-> "Password reset successfully"]

\* Auth.reset_password (lines 136-162): the users and tokens it leaves and
\* what it returns.
reset_password(token, new_password) ==
    IF token \notin DOMAIN auth.tokens
    THEN [users |-> auth.users, tokens |-> auth.tokens, ok |-> FALSE,
          message |-> "Invalid token"]
    ELSE IF auth.tokens[token].expires < auth.now
    THEN [users |-> auth.users, tokens |-> auth.tokens, ok |-> FALSE,
          message |-> "Token expired"]
    ELSE [users |-> [auth.users EXCEPT
                       ![auth.tokens[token].username].password =
                           hash_password(new_password)],
          tokens |-> [t \in DOMAIN auth.tokens \ {token} |-> auth.tokens[t]],
          ok |-> TRUE, message |-> "Password reset successfully"]

ResetPassword(token, new_password) ==
    /\ LET r == reset_password(token, new_password)
       IN  auth' = [auth EXCEPT
                      !.users = r.users, !.tokens = r.tokens,
                      !.resets = IF r.ok
                                 THEN [auth.resets EXCEPT ![token] = @ + 1]
                                 ELSE auth.resets,
                      !.op = "reset_password", !.token = token,
                      !.ok = r.ok, !.message = r.message]
    /\ UNCHANGED <<params, order, openalgo_order_id, entry_price, tp_price,
                   sl_price, position, orders, nextRef, client_broker, calls,
                   response, crashed, last>>

\* datetime.now() moves on by an hour.
Tick ==
    /\ auth.now < MaxTime
    /\ auth' = [auth EXCEPT !.now = @ + 1, !.op = "tick"]
    /\ UNCHANGED <<params, order, openalgo_order_id, entry_price, tp_price,
                   sl_price, position, orders, nextRef, client_broker, calls,
                   response, crashed, last>>

\* --------------------------------------------------------- signal engine

rsi_bullish(b) ==
    /\ b.rsi_ema_slow > 50
    /\ b.rsi_ema_veryfast > b.rsi_ema_fast
    /\ b.rsi_ema_fast > b.rsi_ema_slow

rsi_bearish(b) ==
    /\ b.rsi_ema_slow < 40
    /\ b.rsi_ema_veryfast < b.rsi_ema_fast
    /\ b.rsi_ema_fast < b.rsi_ema_slow

\* Mutant of long_signal: the signal looks at the pending-order marker.
long_signal_when_idle(b) ==
    /\ order = None
    /\ b.ema5 > b.ema20
    /\ b.ema05 > b.ema5
    /\ b.rsi14 > rsi_long
    /\ b.close > b.high1
    /\ b.close1 > b.close2
    /\ b.close > b.open
    /\ rsi_bullish(b)

long_signal(b) ==
    /\ b.ema5 > b.ema20
    /\ b.ema05 > b.ema5
    /\ b.rsi14 > rsi_long
    /\ b.close > b.high1
    /\ b.close1 > b.close2
    /\ b.close > b.open
    /\ rsi_bullish(b)

\* Mutant of short_signal: the long block pasted without mirroring it.
short_signal_pasted(b) ==
    /\ b.ema5 > b.ema20
    /\ b.ema05 > b.ema5
    /\ b.rsi14 > rsi_long
    /\ b.close > b.high1
    /\ b.close1 > b.close2
    /\ b.close > b.open
    /\ rsi_bullish(b)

short_signal(b) ==
    /\ b.ema5 < b.ema20
    /\ b.ema05 < b.ema5
    /\ b.rsi14 < rsi_short
    /\ b.close < b.low1
    /\ b.close1 < b.close2
    /\ b.close < b.open
    /\ rsi_bearish(b)

InForbiddenWindow(b) == ForbiddenFrom <= b.time /\ b.time < ForbiddenTo

\* MyCryptoStrategy.populate_indicators: the momentum flags.
crypto_rsi_bullish(b) ==
    /\ b.rsi_ema_slow > 50
    /\ b.rsi_ema_veryfast > b.rsi_ema_fast
    /\ b.rsi_ema_fast > b.rsi_ema_slow

crypto_rsi_bearish(b) ==
    /\ b.rsi_ema_slow < 40
    /\ b.rsi_ema_veryfast < b.rsi_ema_fast
    /\ b.rsi_ema_fast < b.rsi_ema_slow

\* MyCryptoStrategy.populate_entry_trend: the rows given enter_long = 1 and
\* enter_short = 1.
enter_long(b) ==
    /\ b.ema5 > b.ema20
    /\ b.ema05 > b.ema5
    /\ b.rsi14 > crypto_rsi_long
    /\ b.close > b.high1
    /\ b.close1 > b.close2
    /\ b.close > b.open
    /\ crypto_rsi_bullish(b)
    /\ b.volume > 0

enter_short(b) ==
    /\ b.ema5 < b.ema20
    /\ b.ema05 < b.ema5
    /\ b.rsi14 < crypto_rsi_short
    /\ b.close < b.low1
    /\ b.close1 < b.close2
    /\ b.close < b.open
    /\ crypto_rsi_bearish(b)
    /\ b.volume > 0

\* MyCryptoStrategy.populate_exit_trend: the rows given exit_long = 1 and
\* exit_short = 1.
exit_long(b) == b.close < b.supertrend /\ b.supertrend_direction = -1

exit_short(b) == b.close > b.supertrend /\ b.supertrend_direction = 1

\* custom_exit's min_profit_threshold, 0.0015, in 1/RateScale.
min_profit_threshold == 15

\* MyCryptoStrategy.custom_exit for a long (is_long) or short trade at profit
\* ratio current_profit (in 1/RateScale) with b the last candle: TRUE for
\* 'supertrend_profitable_exit', FALSE for None.
custom_exit(is_long, current_profit, b) ==
    /\ current_profit > min_profit_threshold
    /\ IF is_long
       THEN b.close < b.supertrend /\ b.supertrend_direction = -1
       ELSE b.close > b.supertrend /\ b.supertrend_direction = 1

\* MyCryptoStrategy.confirm_trade_entry at t minutes after midnight.
confirm_trade_entry(t) ==
    LET hour == t \div 60
        minute == t % 60
    IN  ~((hour = 9 /\ minute >= 15) \/ (hour = 10 /\ minute = 0))

Abs(x) == IF x < 0 THEN -x ELSE x

\* int(x / y) of Python for y # 0: the quotient truncated toward zero.
TruncDiv(x, y) ==
    IF (x < 0) = (y < 0) THEN Abs(x) \div Abs(y) ELSE -(Abs(x) \div Abs(y))

\* Mutant of calculate_position_size: round() in place of int().
calculate_position_size_rounded(b) ==
    TruncDiv(2 * b.cash * leverage + b.close, 2 * b.close)

\* calculate_position_size: int(cash * leverage / price).
calculate_position_size(b) == TruncDiv(b.cash * leverage, b.close)

\* ----------------------------------------------------- commission gate

\* net_profit of is_profitable_exit, times RateScale (which keeps its sign).
net_profit(pos, entry, current, rate) ==
    LET size == IF pos < 0 THEN -pos ELSE pos
        gross_profit == IF pos > 0 THEN (current - entry) * size
                        ELSE (entry - current) * size
        commission == rate * (entry + current) * size
    IN  RateScale * gross_profit - commission

\* Mutant of is_profitable_exit: the commission is left out of the test.
is_profitable_exit_gross(pos, entry, current, rate) ==
    IF pos = 0 THEN FALSE
    ELSE IF pos > 0 THEN current > entry ELSE entry > current

is_profitable_exit(pos, entry, current, rate) ==
    IF pos = 0 THEN FALSE ELSE net_profit(pos, entry, current, rate) > 0

\* ------------------------------------------------------ broker adapters

\* What one placeorder call of the OpenAlgo client does: a response whose
\* status is success (with the broker's order id), any other response, or an
\* exception.
OrderIds == {7, 8}
Outcomes ==
    { [status |-> "success", orderid |-> i] : i \in OrderIds }
      \cup { [status |-> "error", orderid |-> None],
             [status |-> "raise", orderid |-> None] }

NoResponse == [status |-> "none", orderid |-> None]

\* The bracket request placeorder is given: action, quantity and the
\* tracker's tp_price and sl_price at the time of the call.
Request(action, quantity, tp, sl) ==
    [action |-> action, quantity |-> quantity,
     target_price |-> tp, stoploss_price |-> sl]

\* One adapter call as the log keeps it: the backend the client pointed at,
\* the request and the outcome.
Call(broker, req, out) == [broker |-> broker, req |-> req, out |-> out]

\* MyStrategy.place_bracket_order_openalgo with the client pointing at
\* `broker`; `out` is what placeorder does, `oid` is openalgo_order_id.  The
\* value: the response returned (NoResponse for None), the new
\* openalgo_order_id and the calls made.
BasePlace(broker, req, out, oid) ==
    IF ~hasClient
    THEN [response |-> NoResponse, oid |-> oid, calls |-> <<>>]
    ELSE IF out.status = "success"
    THEN [response |-> out, oid |-> out.orderid,
          calls |-> <<Call(broker, req, out)>>]
    ELSE [response |-> NoResponse, oid |-> oid,
          calls |-> <<Call(broker, req, out)>>]

primary_broker == "angelone"
backup_broker == "groww"
NoBroker == "unset"

\* Mutant of BackupAttempt: the failover is left out, None is returned once
\* the primary is exhausted.
BackupAttemptSkipped(req, outs, oid, log) ==
    [response |-> NoResponse, oid |-> oid, calls |-> log,
     broker |-> client_broker]

\* The backup attempt of FailoverStrategy.place_bracket_order_openalgo, after
\* the calls in `log`; outs[Len(log) + 1] is what the backup does.  Without a
\* client the assignment to client.broker raises and the except returns None.
BackupAttempt(req, outs, oid, log) ==
    IF ~hasClient
    THEN [response |-> NoResponse, oid |-> oid, calls |-> log,
          broker |-> client_broker]
    ELSE LET r == BasePlace(backup_broker, req, outs[Len(log) + 1], oid)
         IN  [response |-> r.response, oid |-> r.oid,
              calls |-> log \o r.calls, broker |-> backup_broker]

\* Mutant of PrimaryLoop: a successful primary response does not return, the
\* loop goes on.
RECURSIVE PrimaryLoopNoReturn(_, _, _, _, _)
PrimaryLoopNoReturn(attempt, req, outs, oid, log) ==
    IF attempt >= max_retries
    THEN BackupAttempt(req, outs, oid, log)
    ELSE IF ~hasClient
    THEN PrimaryLoopNoReturn(attempt + 1, req, outs, oid, log)
    ELSE LET r == BasePlace(primary_broker, req, outs[Len(log) + 1], oid)
         IN  PrimaryLoopNoReturn(attempt + 1, req, outs, r.oid,
                                 log \o r.calls)

\* Mutant of PrimaryLoop: the failover happens after the first failed
\* attempt instead of after max_retries.
RECURSIVE PrimaryLoopEarlyFailover(_, _, _, _, _)
PrimaryLoopEarlyFailover(attempt, req, outs, oid, log) ==
    IF attempt >= max_retries \/ attempt >= 1
    THEN BackupAttempt(req, outs, oid, log)
    ELSE IF ~hasClient
    THEN PrimaryLoopEarlyFailover(attempt + 1, req, outs, oid, log)
    ELSE LET r == BasePlace(primary_broker, req, outs[Len(log) + 1], oid)
         IN  IF r.response.status = "success"
             THEN [response |-> r.response, oid |-> r.oid,
                   calls |-> log \o r.calls, broker |-> primary_broker]
             ELSE PrimaryLoopEarlyFailover(attempt + 1, req, outs, r.oid,
                                           log \o r.calls)

\* The loop `for attempt in range(max_retries)` from `attempt` on, then the
\* failover.  Without a client every pass raises and is caught.
RECURSIVE PrimaryLoop(_, _, _, _, _)
PrimaryLoop(attempt, req, outs, oid, log) ==
    IF attempt >= max_retries
    THEN BackupAttempt(req, outs, oid, log)
    ELSE IF ~hasClient
    THEN PrimaryLoop(attempt + 1, req, outs, oid, log)
    ELSE LET r == BasePlace(primary_broker, req, outs[Len(log) + 1], oid)
         IN  IF r.response.status = "success"
             THEN [response |-> r.response, oid |-> r.oid,
                   calls |-> log \o r.calls, broker |-> primary_broker]
             ELSE PrimaryLoop(attempt + 1, req, outs, r.oid, log \o r.calls)

\* Mutant of FailoverPlace: once the client points at the backup, the primary
\* is not tried again.
FailoverPlaceSticky(req, outs, oid) ==
    IF client_broker = backup_broker
    THEN BackupAttempt(req, outs, oid, <<>>)
    ELSE PrimaryLoop(0, req, outs, oid, <<>>)

FailoverPlace(req, outs, oid) == PrimaryLoop(0, req, outs, oid, <<>>)

\* self.place_bracket_order_openalgo(action, quantity) of the class that runs.
place_bracket_order_openalgo(req, outs, oid) ==
    IF strategy = "FailoverStrategy"
    THEN FailoverPlace(req, outs, oid)
    ELSE LET r == BasePlace(client_broker, req, outs[1], oid)
         IN  [response |-> r.response, oid |-> r.oid, calls |-> r.calls,
              broker |-> client_broker]

\* ------------------------------------------------------- the tracker

\* notify_order lines 107-108: the prices derived from a long entry.
LongTakeProfit(entry) == (entry * (PctScale + takeprofit_pct)) \div PctScale
LongStopLoss(entry) == (entry * (PctScale - stoploss_pct)) \div PctScale

\* An order of the backtrader broker; tag names the statement that made it.
Order(ref, side, exectype, price, size, tag) ==
    [ref |-> ref, side |-> side, exectype |-> exectype, price |-> price,
     size |-> size, tag |-> tag]

\* No signal of either engine.
NoSig ==
    [long_signal |-> FALSE, short_signal |-> FALSE, close_long |-> FALSE,
     close_short |-> FALSE, enter_long |-> FALSE, enter_short |-> FALSE,
     exit_long |-> FALSE, exit_short |-> FALSE]

Last(op, b, o, px, result) ==
    [op |-> op, bar |-> b, order |-> o, px |-> px, result |-> result,
     value |-> None, alerts |-> <<>>, sig |-> NoSig, broker |-> NoBroker]

NoOrder == Order(None, "none", "none", None, 0, "none")

\* Mutant of OrderPending: the guard `if self.order: return` is missing.
OrderPendingNever == FALSE

\* Mutant of OrderPending: the guard tests the position instead of the order.
OrderPendingOnlyInPosition == position # 0

\* `if self.order: return`: an order object is always true.
OrderPending == order # None

\* The exit branch of next() for an open position: the band test, then the
\* commission gate.
ExitSignal(pos, b) ==
    IF pos > 0 THEN b.close < b.supertrend
    ELSE IF pos < 0 THEN b.close > b.supertrend
    ELSE FALSE

ExitAllowed(pos, entry, b, rate) ==
    ExitSignal(pos, b) /\ is_profitable_exit(pos, entry, b.close, rate)

\* Mutant of WarmingUp: the guard of lines 160-161 is missing.
WarmingUpNever(b) == FALSE

\* `if len(self) < self.p.rsi_ema_slow: return`.
WarmingUp(b) == b.len < rsi_ema_slow

\* What next() does on bar b, by the branch it takes.  The division of line
\* 232 raises ZeroDivisionError at a close of 0; buy() and sell() return None
\* for a size of 0.
NextResult(b) ==
    IF OrderPending THEN "pending"
    ELSE IF WarmingUp(b) THEN "warmup"
    ELSE IF InForbiddenWindow(b) THEN "forbidden"
    ELSE IF position = 0
    THEN IF long_signal(b) \/ short_signal(b)
         THEN IF b.close = 0 THEN "crash"
              ELSE IF calculate_position_size(b) = 0 THEN "nosize"
              ELSE IF long_signal(b) THEN "buy" ELSE "sell"
         ELSE "none"
    ELSE IF ExitAllowed(position, entry_price, b, commission_rate)
         THEN "close" ELSE "none"

\* The order next() hands to the broker, by NextResult: self.buy(size=size),
\* self.sell(size=size), which order abs(size), or self.close(), which sells
\* a long position's size and buys back a short one's.
NextOrder(b, res) ==
    IF res = "buy"
    THEN Order(nextRef, "buy", "Market", None,
               Abs(calculate_position_size(b)), "long_entry")
    ELSE IF res = "sell"
    THEN Order(nextRef, "sell", "Market", None,
               Abs(calculate_position_size(b)), "short_entry")
    ELSE IF position > 0
    THEN Order(nextRef, "sell", "Market", None, position, "close")
    ELSE Order(nextRef, "buy", "Market", None, -position, "close")

\* long_signal and short_signal as next() computed them (lines 182-201),
\* when it got that far.
NextSignals(b, res) ==
    IF res \in {"pending", "warmup", "forbidden"}
    THEN NoSig
    ELSE [NoSig EXCEPT !.long_signal = long_signal(b),
                       !.short_signal = short_signal(b)]

\* MyStrategy.next on bar b.
NextBar(b) ==
    /\ ~crashed
    /\ nextRef <= MaxOrders
    /\ LET res == NextResult(b)
       IN  /\ IF res \in {"buy", "sell", "close"}
              THEN /\ order' = nextRef
                   /\ orders' = orders \cup {NextOrder(b, res)}
                   /\ nextRef' = nextRef + 1
              ELSE UNCHANGED <<order, orders, nextRef>>
           /\ crashed' = (res = "crash")
           /\ last' = [Last("next", b, NoOrder, None, res) EXCEPT
                          !.sig = NextSignals(b, res)]
    /\ UNCHANGED <<params, auth, openalgo_order_id, entry_price, tp_price, sl_price,
                   position, client_broker, calls, response>>

\* calculate_position_size called on bar b (lines 226-234).
CalculatePositionSize(b) ==
    /\ ~crashed
    /\ crashed' = (b.close = 0)
    /\ last' = IF b.close = 0
               THEN Last("calculate_position_size", b, NoOrder, None, "crash")
               ELSE [Last("calculate_position_size", b, NoOrder, None, "size")
                        EXCEPT !.value = calculate_position_size(b)]
    /\ UNCHANGED <<params, auth, order, openalgo_order_id, entry_price, tp_price,
                   sl_price, position, orders, nextRef, client_broker, calls,
                   response>>

\* Both signal engines evaluated on snapshot b: long_signal and short_signal
\* of next() (lines 182-201) with the exit conditions of lines 216 and 221,
\* and the enter_ and exit_ columns of MyCryptoStrategy.
EvaluateSignals(b) ==
    /\ ~crashed
    /\ last' = [Last("signals", b, NoOrder, None, "none") EXCEPT
                   !.sig = [long_signal |-> long_signal(b),
                            short_signal |-> short_signal(b),
                            close_long |-> ExitSignal(1, b),
                            close_short |-> ExitSignal(-1, b),
                            enter_long |-> enter_long(b),
                            enter_short |-> enter_short(b),
                            exit_long |-> exit_long(b),
                            exit_short |-> exit_short(b)]]
    /\ UNCHANGED <<params, auth, order, openalgo_order_id, entry_price, tp_price,
                   sl_price, position, orders, nextRef, client_broker, calls,
                   response, crashed>>

\* MyCryptoStrategy.confirm_trade_entry called at time t.
ConfirmTradeEntry(t) ==
    /\ ~crashed
    /\ last' = Last("confirm_trade_entry", [NoBar EXCEPT !.time = t], NoOrder,
                    None, IF confirm_trade_entry(t) THEN "True" ELSE "False")
    /\ UNCHANGED <<params, auth, order, openalgo_order_id, entry_price, tp_price,
                   sl_price, position, orders, nextRef, client_broker, calls,
                   response, crashed>>

\* What cancelorder of the client may do.
CancelOutcomes == {"success", "error", "raise"}

\* The branch cancel_bracket_orders_openalgo takes (lines 297-314) when
\* cancelorder does `out`: the silent return of line 300, the success print,
\* or one of the two failure prints.  Without a client the call raises inside
\* the try.  Every branch returns None and assigns nothing.
cancel_bracket_orders_openalgo(out) ==
    IF openalgo_order_id = None THEN "silent"
    ELSE IF ~hasClient \/ out = "raise" THEN "printed_error"
    ELSE IF out = "success" THEN "cancelled"
    ELSE "printed_failure"

\* cancel_bracket_orders_openalgo called by the strategy's user.
CancelBracketOrders(out) ==
    /\ ~crashed
    /\ last' = Last("cancel_bracket_orders_openalgo", NoBar, NoOrder, None,
                    cancel_bracket_orders_openalgo(out))
    /\ UNCHANGED <<params, auth, order, openalgo_order_id, entry_price, tp_price,
                   sl_price, position, orders, nextRef, client_broker, calls,
                   response, crashed>>

\* self.place_bracket_order_openalgo('BUY', quantity) called once more, the
\* adapters answering `outs`; last.broker keeps the backend the client
\* pointed at before the call.
Dispatch(quantity, outs) ==
    /\ ~crashed
    /\ LET r == place_bracket_order_openalgo(
                    Request("BUY", quantity, tp_price, sl_price), outs,
                    openalgo_order_id)
       IN  /\ openalgo_order_id' = r.oid
           /\ client_broker' = r.broker
           /\ calls' = r.calls
           /\ response' = r.response
           /\ last' = [Last("place_bracket_order_openalgo", NoBar, NoOrder,
                            None, r.response.status)
                          EXCEPT !.broker = client_broker]
    /\ UNCHANGED <<params, auth, order, entry_price, tp_price, sl_price, position,
                   orders, nextRef, crashed>>

\* MyCryptoStrategy.custom_exit called for a trade; last.order stands for the
\* trade (a buy for a long one), last.value for current_profit.
CustomExit(is_long, current_profit, b) ==
    /\ ~crashed
    /\ last' = [Last("custom_exit", b,
                     Order(None, IF is_long THEN "buy" ELSE "sell", "none",
                           None, 1, "trade"),
                     None,
                     IF custom_exit(is_long, current_profit, b)
                     THEN "supertrend_profitable_exit" ELSE "None")
                   EXCEPT !.value = current_profit]
    /\ UNCHANGED <<params, auth, order, openalgo_order_id, entry_price, tp_price,
                   sl_price, position, orders, nextRef, client_broker, calls,
                   response, crashed>>

\* The prices at which the broker may execute order o: any open for a market
\* order, the order's own price for a limit or stop order that is touched.
ExecPrices(o) == IF o.exectype = "Market" THEN FillPrices ELSE {o.price}

\* The two sell orders of lines 113-114; no size is given, so the sizer's
\* stake is sold by each.
BacktestBracket(tp, sl) ==
    { Order(nextRef, "sell", "Limit", tp, SizerStake, "tp"),
      Order(nextRef + 1, "sell", "Stop", sl, SizerStake, "sl") }

\* The dictionary handed to the Telegram bot (lines 126-133 and 142-150).
Alert(kind, entry, exit, profit, quantity, reason) ==
    [kind |-> kind, side |-> "LONG", entry_price |-> entry,
     exit_price |-> exit, profit |-> profit, quantity |-> quantity,
     reason |-> reason]

\* Mutant of send_message: without the try/except a failed delivery raises.
send_message_unguarded(sent) == IF sent THEN "True" ELSE "raise"

\* TradingTelegramBot.send_message (telegram_bot.py lines 31-42): True when
\* the message was sent, False, after the except, when sending failed.
send_message(sent) == IF sent THEN "True" ELSE "False"

\* `if self.p.telegram_enabled and self.p.telegram_bot:` (lines 124, 140):
\* the alerts one call of notify_order sends, each with what send_message
\* returned for it; `sent` tells whether Telegram accepts the message.
Alerts(a, sent) ==
    IF telegram_bot
    THEN <<[alert |-> a, delivered |-> send_message(sent)]>>
    ELSE <<>>

\* An exception of the alert reaches notify_order.
AlertRaised(as) == as # <<>> /\ as[1].delivered = "raise"

\* notify_order(o), status Completed, isbuy() branch (lines 103-133), with
\* `pending` the broker's other open orders.
OnBuyCompleted(o, px, pending, result) ==
    /\ entry_price' = px
    /\ tp_price' = LongTakeProfit(px)
    /\ sl_price' = LongStopLoss(px)
    /\ IF mode = "backtest"
       THEN /\ orders' = pending \cup BacktestBracket(tp_price', sl_price')
            /\ nextRef' = nextRef + 2
            /\ UNCHANGED <<openalgo_order_id, client_broker, calls, response>>
       ELSE /\ orders' = pending
            /\ UNCHANGED nextRef
            /\ \E outs \in [1..(max_retries + 1) -> Outcomes] :
                 LET r == place_bracket_order_openalgo(
                              Request("BUY", Abs(o.size), tp_price', sl_price'),
                              outs, openalgo_order_id)
                 IN  /\ openalgo_order_id' = r.oid
                     /\ client_broker' = r.broker
                     /\ calls' = r.calls
                     /\ response' = r.response
    /\ \E sent \in BOOLEAN :
         LET as == Alerts(Alert("entry", px, None, None, o.size, "none"), sent)
         IN  /\ crashed' = AlertRaised(as)
             /\ last' = [Last("notify_order", NoBar, o, px,
                              IF AlertRaised(as) THEN "crash" ELSE result)
                            EXCEPT !.alerts = as]
    /\ UNCHANGED <<params, auth, order>>

\* notify_order(o), status Completed, issell() branch (lines 135-150): the
\* profit of line 137 raises TypeError while entry_price is None, and the
\* exception ends cerebro.run().  executed.size of a sell order is negative.
OnSellCompleted(o, px, pending, result) ==
    /\ orders' = pending
    /\ IF entry_price = None
       THEN /\ crashed' = TRUE
            /\ last' = Last("notify_order", NoBar, o, px, "crash")
       ELSE \E sent \in BOOLEAN :
              LET as == Alerts(Alert("exit", entry_price, px,
                                     (px - entry_price) * (-o.size),
                                     -o.size, "Exit"), sent)
              IN  /\ crashed' = AlertRaised(as)
                  /\ last' = [Last("notify_order", NoBar, o, px,
                                   IF AlertRaised(as) THEN "crash" ELSE result)
                                 EXCEPT !.alerts = as]
    /\ UNCHANGED <<params, auth, order, openalgo_order_id, entry_price, tp_price,
                   sl_price, nextRef, client_broker, calls, response>>

\* The broker completes buy order o at px and notifies the strategy.
NotifyBuyCompleted(o, px) ==
    /\ ~crashed
    /\ o \in orders /\ o.side = "buy" /\ px \in ExecPrices(o)
    /\ position' = position + o.size
    /\ OnBuyCompleted(o, px, orders \ {o}, "entry")

\* The broker completes sell order o at px and notifies the strategy.
NotifySellCompleted(o, px) ==
    /\ ~crashed
    /\ o \in orders /\ o.side = "sell" /\ px \in ExecPrices(o)
    /\ position' = position - o.size
    /\ OnSellCompleted(o, px, orders \ {o}, "exit")

\* The broker ends order o without executing it (Margin, Rejected, Canceled,
\* Expired); notify_order(o) with a status other than Completed does nothing.
NotifyNotCompleted(o) ==
    /\ ~crashed
    /\ o \in orders
    /\ orders' = orders \ {o}
    /\ last' = Last("notify_order", NoBar, o, None, "ignored")
    /\ UNCHANGED <<params, auth, order, openalgo_order_id, entry_price, tp_price, sl_price,
                   position, nextRef, client_broker, calls, response, crashed>>

\* The broker's notification of the last completed order is delivered a second
\* time: notify_order runs again on the same order; the broker executes
\* nothing.
ReplayCompleted ==
    /\ ~crashed
    /\ nextRef <= MaxOrders
    /\ last.op = "notify_order"
    /\ last.result \in {"entry", "exit"}
    /\ UNCHANGED position
    /\ IF last.order.side = "buy"
       THEN OnBuyCompleted(last.order, last.px, orders, "entry_replay")
       ELSE OnSellCompleted(last.order, last.px, orders, "exit_replay")

\* ------------------------------------------------------- specifications

\* MyStrategy.__init__ (lines 81-88) under the parameters cerebro was given.
Init ==
    /\ mode \in Modes
    /\ strategy \in Strategies
    /\ hasClient \in BOOLEAN
    /\ max_retries \in 0..MaxRetries
    /\ commission_rate = default_commission_rate
    /\ leverage = default_leverage
    /\ telegram_bot \in BOOLEAN
    /\ order = None
    /\ openalgo_order_id = None
    /\ entry_price = None
    /\ tp_price = None
    /\ sl_price = None
    /\ position = 0
    /\ orders = {}
    /\ nextRef = 1
    /\ client_broker = NoBroker
    /\ calls = <<>>
    /\ response = NoResponse
    /\ crashed = FALSE
    /\ last = Last("init", NoBar, NoOrder, None, "none")
    /\ auth = NewAuth

Next ==
    \/ \E b \in Bars : NextBar(b)
    \/ \E o \in orders : \E px \in ExecPrices(o) : NotifyBuyCompleted(o, px)
    \/ \E o \in orders : \E px \in ExecPrices(o) : NotifySellCompleted(o, px)
    \/ \E o \in orders : NotifyNotCompleted(o)

Spec == Init /\ [][Next]_vars

\* The same program when the broker may deliver a notification twice.
NextReplay == Next \/ ReplayCompleted

SpecReplay == Init /\ [][NextReplay]_vars

\* The state __init__ leaves (lines 81-88), whatever the parameters.
Constructed ==
    /\ order = None
    /\ openalgo_order_id = None
    /\ entry_price = None
    /\ tp_price = None
    /\ sl_price = None
    /\ position = 0
    /\ orders = {}
    /\ nextRef = 1
    /\ client_broker = NoBroker
    /\ calls = <<>>
    /\ response = NoResponse
    /\ crashed = FALSE
    /\ last = Last("init", NoBar, NoOrder, None, "none")
    /\ auth = NewAuth

\* Position sizing as a function of what it reads: the leverage is drawn, and
\* calculate_position_size and next() are applied to bars carrying a signal at
\* every price and cash reading, the degenerate ones included.
Leverages == {1, 8, 9}
SizingPrices == {7, 10001, 65432, 0, -100}
SizingCashes == {1, 1200, 2300, 200000, 0, -50, -1200}

BullAt(px) ==
    [BullBar EXCEPT !.close = px, !.open = px - 2, !.high1 = px - 1,
                    !.low1 = px - 4, !.close1 = px - 2, !.close2 = px - 4]

BearAt(px) ==
    [BearBar EXCEPT !.close = px, !.open = px + 2, !.low1 = px + 1,
                    !.high1 = px + 4, !.close1 = px + 2, !.close2 = px + 4]

SizingBars ==
    { [t EXCEPT !.cash = ca] :
        t \in {BullAt(px) : px \in SizingPrices}
              \cup {BearAt(px) : px \in SizingPrices},
        ca \in SizingCashes }

SizingInit ==
    /\ mode = "backtest"
    /\ strategy = "MyStrategy"
    /\ hasClient = FALSE
    /\ max_retries = 0
    /\ commission_rate = default_commission_rate
    /\ leverage \in Leverages
    /\ telegram_bot = FALSE
    /\ Constructed

SizingNext ==
    \/ \E b \in SizingBars : CalculatePositionSize(b)
    \/ \E b \in SizingBars : NextBar(b)

SpecSizing == SizingInit /\ [][SizingNext]_vars

\* The signal engines and the time gates as functions of what they read:
\* snapshots mixing every alignment of the averages, RSI reading, price
\* pattern, momentum, volume, band side and band direction are evaluated, and
\* next() and confirm_trade_entry are applied at every clock time, before and
\* after the warm-up.
Rsi14s == {35, 40, 60, 65}
Volumes == {0, 100}
Directions == {-1, 1}
ClockTimes == {0, 540, 554, 555, 599, 600, 601, 900}
Lens == {rsi_ema_slow - 1, rsi_ema_slow, MinPeriod}

SignalBars ==
    { [c EXCEPT !.ema05 = e.ema05, !.ema5 = e.ema5, !.ema20 = e.ema20,
                !.rsi14 = r14, !.rsi_ema_veryfast = r.rsi_ema_veryfast,
                !.rsi_ema_fast = r.rsi_ema_fast,
                !.rsi_ema_slow = r.rsi_ema_slow, !.volume = v,
                !.supertrend = s, !.supertrend_direction = d] :
        c \in Templates, e \in Templates, r \in Templates, r14 \in Rsi14s,
        v \in Volumes, s \in Bands, d \in Directions }

EngineBars ==
    { [t EXCEPT !.time = tm, !.volume = v, !.len = n] :
        t \in Templates, tm \in ClockTimes, v \in Volumes, n \in Lens }

EngineInit ==
    /\ mode = "backtest"
    /\ strategy = "MyStrategy"
    /\ hasClient = FALSE
    /\ max_retries = 0
    /\ commission_rate = default_commission_rate
    /\ leverage = default_leverage
    /\ telegram_bot = FALSE
    /\ Constructed

EngineNext ==
    \/ \E b \in SignalBars : EvaluateSignals(b)
    \/ \E t \in ClockTimes : ConfirmTradeEntry(t)
    \/ \E b \in EngineBars : NextBar(b)

SpecEngine == EngineInit /\ [][EngineNext]_vars

\* The paper/live program with cancel_bracket_orders_openalgo called at any
\* moment.
CancelInit ==
    /\ mode \in {"paper", "live"}
    /\ strategy = "MyStrategy"
    /\ hasClient \in BOOLEAN
    /\ max_retries = 0
    /\ commission_rate = default_commission_rate
    /\ leverage = default_leverage
    /\ telegram_bot = FALSE
    /\ Constructed

CancelNext ==
    \/ Next
    \/ \E out \in CancelOutcomes : CancelBracketOrders(out)

SpecCancel == CancelInit /\ [][CancelNext]_vars

\* The failover controller as a function of what it reads: a long position
\* is recorded and place_bracket_order_openalgo is called again and again,
\* under every sequence of adapter outcomes.
Quantities == {1, 2}

DispatchInit ==
    /\ mode = "paper"
    /\ strategy = "FailoverStrategy"
    /\ hasClient \in BOOLEAN
    /\ max_retries \in 0..MaxRetries
    /\ commission_rate = default_commission_rate
    /\ leverage = default_leverage
    /\ telegram_bot = FALSE
    /\ order = 1
    /\ openalgo_order_id = None
    /\ entry_price \in FillPrices
    /\ tp_price = LongTakeProfit(entry_price)
    /\ sl_price = LongStopLoss(entry_price)
    /\ position = 1
    /\ orders = {}
    /\ nextRef = 2
    /\ client_broker = NoBroker
    /\ calls = <<>>
    /\ response = NoResponse
    /\ crashed = FALSE
    /\ last = Last("init", NoBar, NoOrder, None, "none")
    /\ auth = NewAuth

DispatchNext ==
    \E q \in Quantities : \E outs \in [1..(max_retries + 1) -> Outcomes] :
        Dispatch(q, outs)

SpecDispatch == DispatchInit /\ [][DispatchNext]_vars

\* custom_exit as a function of what it reads: the trade's side, the profit
\* ratio freqtrade passes (net of the fees of both sides), and the last
\* candle's close, band and direction.
CurrentProfits == {-10, 0, 5, 15, 16, 30}

ExitBars ==
    { [t EXCEPT !.supertrend = s, !.supertrend_direction = d] :
        t \in Templates, s \in Bands, d \in Directions }

CustomExitNext ==
    \E is_long \in BOOLEAN : \E cp \in CurrentProfits : \E b \in ExitBars :
        CustomExit(is_long, cp, b)

SpecCustomExit == EngineInit /\ [][CustomExitNext]_vars

\* The Auth object under every sequence of send_reset_email and
\* reset_password calls, with tokens known and unknown, as time passes.
AuthNext ==
    \/ \E email \in {EmailOf(u) : u \in Users} \cup {UnknownEmail} :
         \E smtp_ok \in BOOLEAN : SendResetEmail(email, smtp_ok)
    \/ \E token \in 0..MaxTokens : \E pw \in Passwords :
         ResetPassword(token, pw)
    \/ Tick

SpecAuth == EngineInit /\ [][AuthNext]_vars

\* The exit branch of next() taken as a function of what it reads: the
\* position, entry_price, the bar and commission_rate are drawn, no order is
\* pending, and next() is applied to every bar.
OpenSizes == {-2, -1, 1, 2}
Rates == {0, 1, 5}

GateInit ==
    /\ mode \in Modes
    /\ strategy = "MyStrategy"
    /\ hasClient = FALSE
    /\ max_retries = 0
    /\ commission_rate \in Rates
    /\ leverage = default_leverage
    /\ telegram_bot = FALSE
    /\ order = None
    /\ openalgo_order_id = None
    /\ entry_price \in FillPrices
    /\ tp_price = LongTakeProfit(entry_price)
    /\ sl_price = LongStopLoss(entry_price)
    /\ position \in OpenSizes
    /\ orders = {}
    /\ nextRef = 1
    /\ client_broker = NoBroker
    /\ calls = <<>>
    /\ response = NoResponse
    /\ crashed = FALSE
    /\ last = Last("init", NoBar, NoOrder, None, "none")
    /\ auth = NewAuth

GateNext == \E b \in Bars : NextBar(b)

SpecGate == GateInit /\ [][GateNext]_vars

\* ------------------------------------------------- failover dispatch

\* A dispatch through FailoverStrategy has run: only a completed buy sets
\* entry_price, and in paper or live mode it places the bracket order.
Dispatched ==
    /\ strategy = "FailoverStrategy"
    /\ mode \in {"paper", "live"}
    /\ hasClient
    /\ entry_price # None

Succeeded(c) == c.out.status = "success"
PrimaryCalls == { i \in 1..Len(calls) : calls[i].broker = primary_broker }
BackupCalls == { i \in 1..Len(calls) : calls[i].broker = backup_broker }

\* C1: when every primary attempt of a dispatch failed, exactly max_retries
\* calls went to the primary and then one to the backup, max_retries + 1 in
\* all; and when that backup call succeeded the dispatch returned the
\* backup's success response (and recorded its order id).
C1_FailoverToBackup ==
    (Dispatched /\ \A i \in PrimaryCalls : ~Succeeded(calls[i]))
    => /\ Len(calls) = max_retries + 1
       /\ PrimaryCalls = 1..max_retries
       /\ BackupCalls = {max_retries + 1}
       /\ Succeeded(calls[max_retries + 1])
            => /\ response = calls[max_retries + 1].out
               /\ response.status = "success"
               /\ openalgo_order_id = response.orderid

C1_Witness ==
    /\ Dispatched
    /\ max_retries = 2
    /\ Len(calls) = 3
    /\ ~Succeeded(calls[1]) /\ ~Succeeded(calls[2])
    /\ calls[3].broker = backup_broker /\ Succeeded(calls[3])
    /\ response.status = "success"

\* C2: when the k-th primary attempt succeeds, the dispatch returns that
\* response at once: exactly k calls were made, all to the primary, and the
\* backup was never called.
C2_ShortCircuit ==
    Dispatched =>
      \A k \in PrimaryCalls :
         Succeeded(calls[k])
         => /\ Len(calls) = k
            /\ k <= max_retries
            /\ response = calls[k].out
            /\ PrimaryCalls = 1..k
            /\ BackupCalls = {}

C2_Witness ==
    /\ Dispatched
    /\ max_retries = 2
    /\ Len(calls) = 2
    /\ ~Succeeded(calls[1])
    /\ calls[2].broker = primary_broker /\ Succeeded(calls[2])
    /\ response = calls[2].out

\* C3: within one dispatch the backup is called at most once, only after
\* max_retries failed calls to the primary, and no call to the primary
\* follows a call to the backup.
C3_BackupLastAndOnce ==
    /\ Cardinality(BackupCalls) <= 1
    /\ \A j \in BackupCalls :
         /\ j = max_retries + 1
         /\ \A i \in 1..(j - 1) :
              calls[i].broker = primary_broker /\ ~Succeeded(calls[i])
         /\ \A i \in PrimaryCalls : i < j

C3_Witness ==
    /\ Dispatched
    /\ max_retries = 2
    /\ BackupCalls = {3}
    /\ ~Succeeded(calls[3])

\* C4 as claimed: when every primary attempt and the backup attempt failed,
\* the dispatch returned None and the tracker is Flat: no entry price,
\* take-profit, stop-loss, order id or open position is recorded.
C4_ExhaustionLeavesFlat ==
    (Dispatched /\ Len(calls) = max_retries + 1
        /\ \A i \in 1..Len(calls) : ~Succeeded(calls[i]))
    => /\ response = NoResponse
       /\ entry_price = None /\ tp_price = None /\ sl_price = None
       /\ openalgo_order_id = None
       /\ position = 0

\* ---------------------------------------------------- commission gate

\* The claim's arithmetic, over the model's scales: RateScale * net, where
\* gross = (c - e) * q for long or (e - c) * q for short and
\* commission = r * (e + c) * q.
ClaimedNet(pos, e, c, r) ==
    LET q == IF pos > 0 THEN pos ELSE -pos
        gross == IF pos > 0 THEN (c - e) * q ELSE (e - c) * q
    IN  RateScale * gross - r * (e + c) * q

\* next() ran its exit branch on last.bar, whose band test held.
ExitEvaluated ==
    /\ last.op = "next"
    /\ last.result \in {"close", "none"}
    /\ position # 0
    /\ ExitSignal(position, last.bar)

\* C5: next() submits a trend-reversal close order only if net > 0; with
\* e = 100, q = 1, r = 0.0001 and the band test true the close order is
\* submitted at c = 100.20 and c = 100.05 and not at c = 100.01.
C5_CommissionGate ==
    /\ (last.op = "next" /\ last.result = "close")
         => ClaimedNet(position, entry_price, last.bar.close,
                       commission_rate) > 0
    /\ (ExitEvaluated /\ position = 1 /\ entry_price = 10000
           /\ commission_rate = 1)
         => /\ last.bar.close \in {10020, 10005} => last.result = "close"
            /\ last.bar.close = 10001 => last.result = "none"

C5_Witness ==
    /\ ExitEvaluated
    /\ position = 1 /\ entry_price = 10000 /\ commission_rate = 1
    /\ last.bar.close = 10005
    /\ last.result = "close"
    /\ \E o \in orders : o.tag = "close" /\ o.ref = order

\* ------------------------------------------------- position tracker

\* C6 as claimed: a bar (outside the forbidden window) on which a position
\* is open, the trend-reversal exit condition holds and net profit after
\* commission is positive gets a close order, whatever was ordered before.
C6_ProfitableReversalExits ==
    (/\ last.op = "next"
     /\ position # 0
     /\ ~InForbiddenWindow(last.bar)
     /\ ExitSignal(position, last.bar)
     /\ ClaimedNet(position, entry_price, last.bar.close, commission_rate) > 0)
    => /\ last.result = "close"
       /\ \E o \in orders : o.tag = "close"

EntryOrders == { o \in orders : o.tag \in {"long_entry", "short_entry"} }

\* C7: at most one open position: an open position and the entry orders
\* still at the broker never number more than one together, so no entry can
\* fill on top of an open position or of another entry.
C7_AtMostOnePosition ==
    Cardinality(EntryOrders) + (IF position # 0 THEN 1 ELSE 0) <= 1

C7_Witness ==
    /\ position # 0
    /\ last.op = "next"
    /\ long_signal(last.bar)
    /\ ~InForbiddenWindow(last.bar)
    /\ calculate_position_size(last.bar) # 0

\* An order is pending at the broker or a position is open.
NotFlat == orders # {} \/ position # 0

\* C8: next() on a bar carrying an entry signal while the tracker is not Flat
\* submits no entry order and leaves entry price, take-profit, stop-loss and
\* order id unchanged.
C8_EntrySignalIgnoredWhenNotFlat ==
    [][ (/\ last'.op = "next"
         /\ NotFlat
         /\ long_signal(last'.bar) \/ short_signal(last'.bar))
        => /\ EntryOrders' = EntryOrders
           /\ UNCHANGED <<entry_price, tp_price, sl_price, openalgo_order_id,
                          position>> ]_vars

C8_Witness ==
    /\ last.op = "next"
    /\ short_signal(last.bar)
    /\ ~InForbiddenWindow(last.bar)
    /\ calculate_position_size(last.bar) # 0
    /\ last.result = "pending"
    /\ \E o \in orders : o.tag = "long_entry"

\* C9 as claimed: every completed entry order, long or short, is handled as
\* an entry and leaves the prices derived from its executed price:
\* long tp = entry * (1 + tp_pct), sl = entry * (1 - sl_pct); short
\* tp = entry * (1 - tp_pct), sl = entry * (1 + sl_pct).
C9_EntryFillDerivesPrices ==
    (/\ last.op = "notify_order"
     /\ last.order.tag \in {"long_entry", "short_entry"}
     /\ last.result # "ignored")
    => /\ last.result = "entry"
       /\ entry_price = last.px
       /\ IF last.order.tag = "long_entry"
          THEN /\ tp_price * PctScale = last.px * (PctScale + takeprofit_pct)
               /\ sl_price * PctScale = last.px * (PctScale - stoploss_pct)
          ELSE /\ tp_price * PctScale = last.px * (PctScale - takeprofit_pct)
               /\ sl_price * PctScale = last.px * (PctScale + stoploss_pct)

\* C10 as claimed: the execution of a hard take-profit or stop-loss order
\* closes the open position, whatever the net profit.
C10_HardStopCloses ==
    (/\ last.op = "notify_order"
     /\ last.order.tag \in {"tp", "sl"}
     /\ last.result # "ignored")
    => position = 0

\* C11 as claimed: once the fill of an exit order has been processed, the
\* entry price, take-profit, stop-loss and broker order id are cleared and
\* exactly one closed-trade event, carrying the exit price and a reason, has
\* been emitted.
C11_ExitFillDestroysPosition ==
    (/\ last.op = "notify_order"
     /\ last.order.tag \in {"tp", "sl", "close"}
     /\ last.result # "ignored")
    => /\ entry_price = None
       /\ tp_price = None
       /\ sl_price = None
       /\ openalgo_order_id = None
       /\ Len(last.alerts) = 1
       /\ last.alerts[1].alert.kind = "exit"
       /\ last.alerts[1].alert.exit_price = last.px
       /\ last.alerts[1].alert.reason # "none"

\* C12 as claimed: the second delivery of an identical entry fill changes
\* nothing: no field of the tracker, no order at the broker, no dispatch to
\* the adapter, and no alert.
C12_ReplayedEntryFillChangesNothing ==
    [][last'.result = "entry_replay"
       => /\ UNCHANGED <<entry_price, tp_price, sl_price, openalgo_order_id,
                         order, orders, nextRef, position, client_broker,
                         calls, response>>
          /\ last'.alerts = <<>>]_vars


\* C13: called with positive cash, leverage and price,
\* calculate_position_size returns floor(cash * leverage / price), which is 24
\* for cash 200000, leverage 8 and price 65432, and changes no state.
C13_SizingIsFloor ==
    [][(/\ last'.op = "calculate_position_size"
        /\ last'.bar.cash > 0 /\ leverage > 0 /\ last'.bar.close > 0)
       => /\ last'.result = "size"
          /\ last'.value * last'.bar.close <= last'.bar.cash * leverage
          /\ last'.bar.cash * leverage < (last'.value + 1) * last'.bar.close
          /\ (last'.bar.cash = 200000 /\ leverage = 8
              /\ last'.bar.close = 65432) => last'.value = 24
          /\ UNCHANGED <<params, auth, order, openalgo_order_id, entry_price,
                         tp_price, sl_price, position, orders, nextRef,
                         client_broker, calls, response, crashed>>]_vars

C13_Witness ==
    /\ last.op = "calculate_position_size"
    /\ last.bar.cash = 200000 /\ leverage = 8 /\ last.bar.close = 65432
    /\ last.value = 24

\* C14 as claimed: at a price or a cash reading that is not positive the
\* sizing returns zero without crashing, and next() submits no entry order on
\* that bar and does not crash.
C14_DegenerateSizingIsNoOp ==
    (last.bar.close <= 0 \/ last.bar.cash <= 0)
    => /\ last.op = "calculate_position_size"
          => (last.result = "size" /\ last.value = 0)
       /\ last.op = "next" => last.result \notin {"buy", "sell", "crash"}
       /\ ~crashed

\* C15: no evaluation finds the long and the short entry conditions both
\* true, in next() and in populate_entry_trend.
C15_LongShortExclusive ==
    /\ ~(last.sig.long_signal /\ last.sig.short_signal)
    /\ ~(last.sig.enter_long /\ last.sig.enter_short)

C15_Witness ==
    /\ last.op = "signals"
    /\ last.sig.long_signal /\ last.sig.enter_long
    /\ last.bar.ema5 > last.bar.ema20

\* C16 as claimed: a bar of zero volume raises no entry signal, in next() and
\* in populate_entry_trend, and next() submits no entry order on it.
C16_ZeroVolumeNeverEnters ==
    last.bar.volume = 0
    => /\ ~last.sig.long_signal /\ ~last.sig.short_signal
       /\ ~last.sig.enter_long /\ ~last.sig.enter_short
       /\ last.op = "next" => last.result \notin {"buy", "sell"}

\* C17 as claimed: the exit condition of a long holds only when the close is
\* below the band and the band's direction is -1, that of a short only when
\* the close is above the band and the direction is +1, in next() and in
\* populate_exit_trend.
C17_ExitNeedsBandDirection ==
    /\ (last.sig.close_long \/ last.sig.exit_long)
       => (/\ last.bar.close < last.bar.supertrend
           /\ last.bar.supertrend_direction = -1)
    /\ (last.sig.close_short \/ last.sig.exit_short)
       => (/\ last.bar.close > last.bar.supertrend
           /\ last.bar.supertrend_direction = 1)

\* C18 as claimed: at every time of the forbidden window (9:15 up to 10:00)
\* next() submits no entry order and confirm_trade_entry returns False, and
\* at no time outside it does the time gate suppress an entry.
C18_ForbiddenWindow ==
    LET inside == ForbiddenFrom <= last.bar.time /\ last.bar.time < ForbiddenTo
    IN  /\ last.op = "next"
           => /\ inside => last.result \notin {"buy", "sell"}
              /\ ~inside => last.result # "forbidden"
        /\ last.op = "confirm_trade_entry"
           => (last.result = "False" <=> inside)

\* C19: a call of next() before rsi_ema_slow bars have been seen submits no
\* order, changes no field of the tracker and raises nothing.
C19_WarmupIsNoOp ==
    [][(last'.op = "next" /\ last'.bar.len < rsi_ema_slow)
       => /\ last'.result \in {"warmup", "pending"}
          /\ UNCHANGED <<params, auth, order, openalgo_order_id, entry_price,
                         tp_price, sl_price, position, orders, nextRef,
                         client_broker, calls, response, crashed>>]_vars

C19_Witness ==
    /\ last.op = "next"
    /\ last.bar.len < rsi_ema_slow
    /\ long_signal(last.bar) /\ ~InForbiddenWindow(last.bar)
    /\ last.result = "warmup"
    /\ order = None /\ orders = {}

\* C20 as claimed: a completed sell fill arriving while the tracker is flat,
\* or a completed fill of an order that is neither the pending one nor a
\* take-profit or stop order of the open position, is reported as an error
\* (here: the raised exception) and leaves the entry price, take-profit,
\* stop-loss, broker order id and pending-order marker unchanged.
C20_InvalidFillReported ==
    [][(/\ last'.op = "notify_order"
        /\ last'.result # "ignored"
        /\ \/ last'.order.side = "sell" /\ (entry_price = None \/ position = 0)
           \/ /\ last'.order.ref # order
              /\ ~(last'.order.tag \in {"tp", "sl"} /\ position # 0))
       => /\ last'.result = "crash"
          /\ UNCHANGED <<entry_price, tp_price, sl_price, openalgo_order_id,
                         order>>]_vars

\* C21 as claimed: a cancel request issued when no cancellable order exists,
\* or after the entry fill has been received, ends in a reported error, never
\* silently nor as a cancellation; and a failed cancel is surfaced to the
\* caller by the value returned.
C21_CancelFailsLoudly ==
    last.op = "cancel_bracket_orders_openalgo"
    => /\ (openalgo_order_id = None \/ entry_price # None)
          => last.result \notin {"silent", "cancelled"}
       /\ last.result \in {"printed_failure", "printed_error"}
          => last.value # None

\* What a dispatch returned, read from the calls it made alone: the answer
\* of its last call when that call succeeded, None otherwise.
OutcomeOfCalls(cs) ==
    IF cs # <<>> /\ Succeeded(cs[Len(cs)]) THEN cs[Len(cs)].out ELSE NoResponse

\* C22 as claimed: in every dispatch the first adapter call targets the
\* primary, whatever backend the previous dispatch ended on, and what the
\* dispatch returns is fixed by the answers of its own calls.
C22_FirstCallIsPrimary ==
    [][last'.op = "place_bracket_order_openalgo"
       => /\ calls' # <<>> => calls'[1].broker = primary_broker
          /\ response' = OutcomeOfCalls(calls')]_vars

\* C22, amended: the first call targets the primary when max_retries is at
\* least 1; with max_retries = 0 the only call goes to the backup.
C22_FirstCallIsPrimaryIfRetries ==
    [][last'.op = "place_bracket_order_openalgo"
       => /\ calls' # <<>>
             => calls'[1].broker =
                  IF max_retries >= 1 THEN primary_broker ELSE backup_broker
          /\ response' = OutcomeOfCalls(calls')
          /\ \A i \in 1..(Len(calls') - 1) : ~Succeeded(calls'[i])]_vars

C22_Witness ==
    /\ last.op = "place_bracket_order_openalgo"
    /\ last.broker = backup_broker
    /\ max_retries >= 1
    /\ Len(calls) >= 1
    /\ calls[1].broker = primary_broker
    /\ Succeeded(calls[1])
    /\ client_broker = primary_broker

\* C23: when the delivery of an entry or exit alert fails, notify_order ends
\* without an exception and the fill it handled stands: the entry's prices
\* are recorded and the position is the broker's; the run goes on.
C23_FailedAlertLeavesCoreAlone ==
    [][(/\ last'.op = "notify_order"
        /\ last'.alerts # <<>>
        /\ last'.alerts[1].delivered # "True")
       => /\ ~crashed'
          /\ last'.result \in {"entry", "exit"}
          /\ last'.result = "entry"
             => /\ entry_price' = last'.px
                /\ tp_price' = LongTakeProfit(last'.px)
                /\ sl_price' = LongStopLoss(last'.px)
                /\ position' = position + last'.order.size
                /\ last'.order \notin orders'
          /\ last'.result = "exit"
             => /\ position' = position - last'.order.size
                /\ last'.order \notin orders'
                /\ UNCHANGED <<entry_price, tp_price, sl_price>>
          /\ UNCHANGED order]_vars

C23_Witness ==
    /\ last.op = "notify_order"
    /\ telegram_bot
    /\ last.alerts # <<>>
    /\ last.alerts[1].delivered = "False"
    /\ last.alerts[1].alert.kind = "exit"
    /\ ~crashed
    /\ position = 0

\* The step evaluated the entry signals.
Evaluated(l) ==
    \/ l.op = "signals"
    \/ l.op = "next" /\ l.result \notin {"pending", "warmup", "forbidden"}

\* Two bars carrying the same indicator snapshot and price history.
SameSnapshot(a, b) ==
    [a EXCEPT !.time = 0, !.cash = 0, !.len = 0]
      = [b EXCEPT !.time = 0, !.cash = 0, !.len = 0]

C25_BracketForEveryEntry ==
    (/\ last.op = "notify_order"
     /\ last.order.tag \in {"long_entry", "short_entry"}
     /\ last.result # "ignored"
     /\ mode \in {"paper", "live"}
     /\ hasClient)
    => /\ calls # <<>>
       /\ \A i \in 1..Len(calls) :
            /\ calls[i].req.quantity = Abs(last.order.size)
            /\ IF last.order.tag = "long_entry"
               THEN /\ calls[i].req.target_price * PctScale
                         = last.px * (PctScale + takeprofit_pct)
                    /\ calls[i].req.stoploss_price * PctScale
                         = last.px * (PctScale - stoploss_pct)
               ELSE /\ calls[i].req.target_price * PctScale
                         = last.px * (PctScale - takeprofit_pct)
                    /\ calls[i].req.stoploss_price * PctScale
                         = last.px * (PctScale + stoploss_pct)

\* C26 as claimed: in backtest mode no take-profit or stop order fills once
\* the long position it protects is closed, so such a fill never leaves a
\* short position.
C26_BracketIsOneCancelsOther ==
    [][(/\ mode = "backtest"
        /\ last'.op = "notify_order"
        /\ last'.order.tag \in {"tp", "sl"}
        /\ last'.result # "ignored")
       => (position > 0 /\ position' >= 0)]_vars

\* C27 as claimed: custom_exit returns 'supertrend_profitable_exit' exactly
\* when the profit net of commission is positive and the reversal matching
\* the trade's side holds on the last candle, and None otherwise; the
\* break-even boundary is the commission, not a fixed percentage on top.
C27_CustomExitAtBreakEven ==
    last.op = "custom_exit"
    => (last.result = "supertrend_profitable_exit"
        <=> /\ last.value > 0
            /\ IF last.order.side = "buy"
               THEN /\ last.bar.close < last.bar.supertrend
                    /\ last.bar.supertrend_direction = -1
               ELSE /\ last.bar.close > last.bar.supertrend
                    /\ last.bar.supertrend_direction = 1)

\* C28 as claimed: at every hour:minute confirm_trade_entry returns False
\* exactly when the forbidden-window test of MyStrategy.next is true.
C28_SameRejectedTimes ==
    last.op = "confirm_trade_entry"
    => (~confirm_trade_entry(last.bar.time) <=> InForbiddenWindow(last.bar))
       /\ (last.result = "False" <=> InForbiddenWindow(last.bar))

Unusable(token) ==
    \/ token \notin DOMAIN auth.tokens
    \/ auth.tokens[token].expires < auth.now

\* C30: no token changes a password twice; a reset_password call with an
\* unknown, used or expired token returns failure and leaves the users and
\* the tokens as they were; a call that succeeds is made no later than the
\* token's expiry, changes the password of the token's user alone, and uses
\* the token up.
C30_ResetTokenOnceBeforeExpiry ==
    [][auth'.op = "reset_password"
       => /\ \A t \in 1..MaxTokens : auth'.resets[t] <= 1
          /\ Unusable(auth'.token)
             => /\ ~auth'.ok
                /\ auth'.users = auth.users
                /\ auth'.tokens = auth.tokens
          /\ auth'.ok
             => /\ auth'.token \in DOMAIN auth.tokens
                /\ auth.now <= auth.tokens[auth'.token].expires
                /\ auth'.token \notin DOMAIN auth'.tokens
                /\ \A u \in Users :
                     u # auth.tokens[auth'.token].username
                     => auth'.users[u] = auth.users[u]]_vars

C30_Witness ==
    /\ auth.op = "reset_password"
    /\ ~auth.ok
    /\ auth.message = "Invalid token"
    /\ auth.token \in 1..MaxTokens
    /\ auth.resets[auth.token] = 1
    /\ auth.users["trader"].password = hash_password("pw1")

=============================================================================
